---------------------------- MODULE Spec2Model ----------------------------
(***************************************************************************)
(* DentBook (src/main.py): a FastAPI backend over an SQLite store.  Each   *)
(* table is a variable holding its rows in storage order; each request     *)
(* handler is one action that reads and writes the tables as its SQL       *)
(* statements do, and leaves its request and response in `last`.           *)
(***************************************************************************)
EXTENDS Integers, Sequences, FiniteSets, TLC

VARIABLES
    doctors,         \* table doctors: rows [id, student_id, username, password, color, phone, country_code]
    matches,         \* table matches: rows [doctor_id, target_id]
    match_requests,  \* table match_requests: rows [id, from_id, from_name, to_student_id]
    patients,        \* table patients: rows [id, doctor_id, name, r4]
    appointments,    \* table appointments: rows [id, doctor_id, day, ..., rank]
    blocked_days,    \* table blocked_days: rows [doctor_id, day]
    global_blocks,   \* table global_blocks: rows [doctor_id, day_of_week, session]
    nextId,          \* per table: how many ids uuid4() has made for it, plus one
    last,            \* the last request served: [op, req, status, body]
    prior,           \* matches, blocked_days, global_blocks as they were before `last`,
                     \* and, when `last` is a toggle, the request served before it
    workers          \* per server process: the create_appointment call it is inside

vars == <<doctors, matches, match_requests, patients, appointments,
          blocked_days, global_blocks, nextId, last, prior, workers>>

-----------------------------------------------------------------------------
(* Bounds of the model. *)

\* How many rows a behaviour ever inserts into each table with a generated id.
MaxDoctors == 2
MaxRequests == 2
MaxPatients == 2
MaxAppointments == 3

\* How many rows a behaviour of SpecRoundTrip inserts in all.
MaxCreates == 3

\* The longest id list a reorder request carries.
MaxReorder == 3

-----------------------------------------------------------------------------
(* Values. *)

\* Python's None / SQL NULL for an Optional field: the empty tuple; a present
\* value s is <<s>>.
None == <<>>
Some(s) == <<s>>

Range(f) == {f[i] : i \in DOMAIN f}

RECURSIVE SetMax(_)
SetMax(S) ==
    LET x == CHOOSE y \in S : TRUE
    IN  IF S = {x} THEN x
        ELSE LET m == SetMax(S \ {x}) IN IF x > m THEN x ELSE m

\* str.split(","): a query string is a sequence of symbols, "," among them.
RECURSIVE SplitFrom(_, _, _)
SplitFrom(s, i, cur) ==
    IF i > Len(s) THEN <<cur>>
    ELSE IF s[i] = "," THEN <<cur>> \o SplitFrom(s, i + 1, <<>>)
    ELSE SplitFrom(s, i + 1, cur \o <<s[i]>>)
Split(s) == SplitFrom(s, 1, <<>>)

-----------------------------------------------------------------------------
(* Request inputs. *)

DoctorIds == {"d1", "d2"}
\* The (day, session) slots requests name: two that differ in both fields.
Slots == {[day |-> "Sun", session |-> "Morning"], [day |-> "Mon", session |-> "Afternoon"]}
SubmittedRanks == {0, 2}

\* The Appointment bodies a client posts.
ApptInputs ==
    {[id |-> None, doctor_id |-> d, day |-> s.day, session |-> s.session,
      patient_name |-> "Ann", patient_r4 |-> "R5", duration |-> "30",
      type |-> "Exam", other_type_details |-> None, rank |-> r] :
        d \in DoctorIds, s \in Slots, r \in SubmittedRanks}

\* The doctor_ids query strings of GET /appointments.
DoctorIdQueries == {<<"d1">>, <<"d2">>, <<"d1", ",", "d2">>}

\* The lists of at most n distinct members of S.
RECURSIVE ListsUpTo(_, _)
ListsUpTo(S, n) ==
    IF n = 0 THEN {<<>>}
    ELSE LET shorter == ListsUpTo(S, n - 1)
         IN  shorter \cup {Append(q, x) : q \in {r \in shorter : Len(r) = n - 1},
                                          x \in S}

\* uuid4(): a fresh id.  Ids are numbered per table; no handler compares an id
\* of one table with an id of another.
uuid4(table) == nextId[table]

\* The ids of `table` a request may name: those generated so far, and 0, an id
\* that is never generated.
NamedIds(table) == 0..(nextId[table] - 1)

-----------------------------------------------------------------------------
(* The state after init_db() on a fresh database file. *)

NoRequest == [op |-> "none", req |-> None, status |-> 0, body |-> None]
Idle == [pc |-> "idle", appt |-> None, row |-> None]
WorkerIds == {1, 2}

Init ==
    /\ doctors = <<>>
    /\ matches = <<>>
    /\ match_requests = <<>>
    /\ patients = <<>>
    /\ appointments = <<>>
    /\ blocked_days = {}
    /\ global_blocks = {}
    /\ nextId = [doctors |-> 1, match_requests |-> 1, patients |-> 1, appointments |-> 1]
    /\ last = NoRequest
    /\ prior = [matches |-> <<>>, blocked_days |-> {}, global_blocks |-> {},
                request |-> NoRequest]
    /\ workers = [w \in WorkerIds |-> Idle]

\* The tables `prior` remembers, as they are now.
Before == [matches |-> matches, blocked_days |-> blocked_days,
           global_blocks |-> global_blocks, request |-> NoRequest]

-----------------------------------------------------------------------------
(* Appointments. *)

\* A slip: the WHERE clause without its day and session terms.
SelectMaxRankOfDoctor(tbl, doctor_id, day, session) ==
    LET ranks == {tbl[i].rank : i \in {j \in DOMAIN tbl : tbl[j].doctor_id = doctor_id}}
    IN  IF ranks = {} THEN None ELSE Some(SetMax(ranks))

\* SELECT MAX(rank) FROM appointments WHERE doctor_id=? AND day=? AND session=?
\* The one row's first column: NULL over no rows.
SelectMaxRank(tbl, doctor_id, day, session) ==
    LET ranks == {tbl[i].rank : i \in {j \in DOMAIN tbl :
                      /\ tbl[j].doctor_id = doctor_id
                      /\ tbl[j].day = day
                      /\ tbl[j].session = session}}
    IN  IF ranks = {} THEN None ELSE Some(SetMax(ranks))

\* new_rank = (row[0] if row[0] is not None else 0) + 1
NewRank(row0) == (IF row0 # None THEN row0[1] ELSE 0) + 1

\* The row INSERT INTO appointments writes for body `appt`.
AppointmentRow(id, appt, new_rank) ==
    [id |-> id, doctor_id |-> appt.doctor_id, day |-> appt.day,
     session |-> appt.session, patient_name |-> appt.patient_name,
     patient_r4 |-> appt.patient_r4, duration |-> appt.duration,
     type |-> appt.type, other_type_details |-> appt.other_type_details,
     rank |-> new_rank]

\* What create_appointment returns: the request body with its id set.
CreateResponse(id, appt, new_rank) == [appt EXCEPT !.id = Some(id)]

\* POST /appointments
CreateAppointmentWith(appt) ==
    /\ nextId.appointments <= MaxAppointments
    /\ LET id == uuid4("appointments")
           row0 == SelectMaxRank(appointments, appt.doctor_id, appt.day, appt.session)
           new_rank == NewRank(row0)
       IN  /\ appointments' = Append(appointments, AppointmentRow(id, appt, new_rank))
           /\ last' = [op |-> "create_appointment", req |-> appt, status |-> 200,
                       body |-> CreateResponse(id, appt, new_rank)]
    /\ nextId' = [nextId EXCEPT !.appointments = @ + 1]
    /\ prior' = Before
    /\ UNCHANGED <<doctors, matches, match_requests, patients, blocked_days,
                   global_blocks, workers>>

CreateAppointment == \E appt \in ApptInputs : CreateAppointmentWith(appt)

\* DELETE /appointments/{appt_id}
DeleteAppointment ==
    \E appt_id \in NamedIds("appointments") :
        /\ appointments' = SelectSeq(appointments, LAMBDA r : r.id # appt_id)
        /\ last' = [op |-> "delete_appointment", req |-> [appt_id |-> appt_id],
                    status |-> 200, body |-> [status |-> "deleted"]]
        /\ UNCHANGED <<doctors, matches, match_requests, patients, blocked_days,
                       global_blocks, nextId, workers>>
        /\ prior' = Before

\* A slip: positions counted from one.
UpdateRankOneBased(tbl, index, appt_id) ==
    [i \in DOMAIN tbl |->
        IF tbl[i].id = appt_id THEN [tbl[i] EXCEPT !.rank = index + 1] ELSE tbl[i]]

\* UPDATE appointments SET rank = ? WHERE id = ?
UpdateRank(tbl, index, appt_id) ==
    [i \in DOMAIN tbl |->
        IF tbl[i].id = appt_id THEN [tbl[i] EXCEPT !.rank = index] ELSE tbl[i]]

\* for index, appt_id in enumerate(req.ids): one UPDATE each, in list order.
RECURSIVE ReorderFrom(_, _, _)
ReorderFrom(tbl, ids, k) ==
    IF k > Len(ids) THEN tbl
    ELSE ReorderFrom(UpdateRank(tbl, k - 1, ids[k]), ids, k + 1)

\* PUT /appointments/reorder
ReorderAppointments ==
    \E ids \in {l \in ListsUpTo(NamedIds("appointments"), MaxReorder) :
                    \A i, j \in DOMAIN l : i # j => l[i] # l[j]} :
        /\ appointments' = ReorderFrom(appointments, ids, 1)
        /\ last' = [op |-> "reorder_appointments", req |-> [ids |-> ids],
                    status |-> 200, body |-> [status |-> "reordered"]]
        /\ UNCHANGED <<doctors, matches, match_requests, patients, blocked_days,
                       global_blocks, nextId, workers>>
        /\ prior' = Before

\* A slip: the move also resets the rank.
UpdateDaySessionAndRank(tbl, day, session, appt_id) ==
    [i \in DOMAIN tbl |->
        IF tbl[i].id = appt_id
        THEN [tbl[i] EXCEPT !.day = day, !.session = session, !.rank = 0]
        ELSE tbl[i]]

\* UPDATE appointments SET day = ?, session = ? WHERE id = ?
UpdateDaySession(tbl, day, session, appt_id) ==
    [i \in DOMAIN tbl |->
        IF tbl[i].id = appt_id
        THEN [tbl[i] EXCEPT !.day = day, !.session = session]
        ELSE tbl[i]]

\* PUT /appointments/{appt_id}/move
MoveAppointment ==
    \E appt_id \in NamedIds("appointments"), slot \in Slots :
        /\ appointments' = UpdateDaySession(appointments, slot.day, slot.session, appt_id)
        /\ last' = [op |-> "move_appointment",
                    req |-> [appt_id |-> appt_id, day |-> slot.day, session |-> slot.session],
                    status |-> 200, body |-> [status |-> "moved"]]
        /\ UNCHANGED <<doctors, matches, match_requests, patients, blocked_days,
                       global_blocks, nextId, workers>>
        /\ prior' = Before

\* The orders ORDER BY rank ASC may return `rows` in: ascending rank, rows of
\* equal rank in any order.
OrderByRank(rows) ==
    LET n == Len(rows)
        perms == {p \in [1..n -> 1..n] : \A i, j \in 1..n : i # j => p[i] # p[j]}
    IN  {[i \in 1..n |-> rows[p[i]]] : p \in
            {q \in perms : \A i, j \in 1..n : i < j => rows[q[i]].rank <= rows[q[j]].rank}}

\* SELECT * FROM appointments WHERE doctor_id IN (...) ORDER BY rank ASC
SelectAppointments(tbl, ids) ==
    OrderByRank(SelectSeq(tbl, LAMBDA r : <<r.doctor_id>> \in Range(ids)))

\* GET /appointments?doctor_ids=
GetAppointments ==
    \E doctor_ids \in DoctorIdQueries :
        \E rows \in SelectAppointments(appointments, Split(doctor_ids)) :
            /\ last' = [op |-> "get_appointments", req |-> [doctor_ids |-> doctor_ids],
                        status |-> 200, body |-> rows]
            /\ prior' = Before
            /\ UNCHANGED <<doctors, matches, match_requests, patients, appointments,
                           blocked_days, global_blocks, nextId, workers>>

-----------------------------------------------------------------------------
(* Scheduling claims. *)

\* The rows of `tbl` in the bucket (doctor_id, day, session).
Bucket(tbl, doctor_id, day, session) ==
    {r \in Range(tbl) : r.doctor_id = doctor_id /\ r.day = day /\ r.session = session}

RowsWithId(tbl, id) == {r \in Range(tbl) : r.id = id}

\* The position of the row with id `id` in the list `rows` (0: not in it).
PositionOf(rows, id) ==
    IF \E i \in DOMAIN rows : rows[i].id = id
    THEN CHOOSE i \in DOMAIN rows : rows[i].id = id
    ELSE 0

CreatedStep == last'.op = "create_appointment"

\* C1: a create stores rank 1 when its bucket holds no appointment and the
\* bucket's largest rank plus 1 otherwise; a create that directly follows a
\* create into the same bucket stores that one's rank plus 1, so consecutive
\* creates into an empty bucket store 1, 2, 3 in creation order.
C1_CreateAppendsRank ==
    [][CreatedStep =>
        LET a == last'.req
            before == Bucket(appointments, a.doctor_id, a.day, a.session)
            new == RowsWithId(appointments', last'.body.id[1])
        IN  /\ Cardinality(new) = 1
            /\ appointments' = Append(appointments, CHOOSE r \in new : TRUE)
            /\ \A r \in new :
                /\ before = {} => r.rank = 1
                /\ before # {} =>
                       \E m \in before :
                           /\ \A o \in before : o.rank <= m.rank
                           /\ r.rank = m.rank + 1
                /\ (/\ last.op = "create_appointment"
                    /\ last.req.doctor_id = a.doctor_id
                    /\ last.req.day = a.day
                    /\ last.req.session = a.session) =>
                       \A p \in RowsWithId(appointments, last.body.id[1]) :
                           r.rank = p.rank + 1]_vars

\* Three creates in a row filled one bucket: ranks 1, 2, 3 in storage order.
C1_Witness ==
    /\ last.op = "create_appointment"
    /\ Len(appointments) = 3
    /\ \A i \in 1..3 :
        /\ appointments[i].rank = i
        /\ appointments[i].id = i
        /\ appointments[i].doctor_id = appointments[1].doctor_id
        /\ appointments[i].day = appointments[1].day
        /\ appointments[i].session = appointments[1].session

\* ids names each appointment of one non-empty bucket of tbl exactly once.
NamesOneBucket(tbl, ids) ==
    /\ ids # <<>>
    /\ \A i, j \in DOMAIN ids : i # j => ids[i] # ids[j]
    /\ \E r \in Range(tbl) :
           Range(ids) = {o.id : o \in Bucket(tbl, r.doctor_id, r.day, r.session)}

\* The practitioner whose bucket ids names.
OwnerOf(tbl, ids) == (CHOOSE r \in Range(tbl) : r.id = ids[1]).doctor_id

\* C2 (ranks): right after a reorder whose list names each appointment of one
\* bucket exactly once, every listed appointment's rank is its zero-based
\* position in the list.
C2_RanksArePositions ==
    (last.op = "reorder_appointments" /\ NamesOneBucket(appointments, last.req.ids)) =>
        \A k \in DOMAIN last.req.ids :
            \A r \in RowsWithId(appointments, last.req.ids[k]) : r.rank = k - 1

\* C2 (listing): a list call for that practitioner served right after such a
\* reorder returns the listed appointments in the list's relative order.
C2_ListFollowsReorder ==
    [][(/\ last.op = "reorder_appointments"
        /\ NamesOneBucket(appointments, last.req.ids)
        /\ last'.op = "get_appointments"
        /\ <<OwnerOf(appointments, last.req.ids)>> \in Range(Split(last'.req.doctor_ids))) =>
            \A i, j \in DOMAIN last.req.ids :
                i < j =>
                    /\ PositionOf(last'.body, last.req.ids[i]) > 0
                    /\ PositionOf(last'.body, last.req.ids[i])
                           < PositionOf(last'.body, last.req.ids[j])]_vars

\* C2: Reorder sets ranks to list positions and the next list call returns
\* the bucket in the list's order.
C2_ReorderThenList == []C2_RanksArePositions /\ C2_ListFollowsReorder

\* A list call returned a three-appointment bucket in the order [3, 1, 2] that
\* the reorder just before it asked for.
C2_Witness ==
    /\ last.op = "get_appointments"
    /\ Len(last.body) = 3
    /\ <<last.body[1].id, last.body[2].id, last.body[3].id>> = <<3, 1, 2>>
    /\ <<last.body[1].rank, last.body[2].rank, last.body[3].rank>> = <<0, 1, 2>>
    /\ NamesOneBucket(appointments, <<3, 1, 2>>)

MovedStep == last'.op = "move_appointment"

\* C3: Move sets the named appointment's day and session to the given values
\* and changes nothing else: not its rank or other fields, no other
\* appointment, no other table; on an id no appointment has, nothing changes.
C3_MoveFrame ==
    [][MovedStep =>
        /\ Len(appointments') = Len(appointments)
        /\ \A i \in DOMAIN appointments :
               IF appointments[i].id = last'.req.appt_id
               THEN /\ appointments'[i].day = last'.req.day
                    /\ appointments'[i].session = last'.req.session
                    /\ [appointments'[i] EXCEPT !.day = appointments[i].day,
                                                !.session = appointments[i].session]
                           = appointments[i]
               ELSE appointments'[i] = appointments[i]
        /\ (RowsWithId(appointments, last'.req.appt_id) = {} =>
               appointments' = appointments)
        /\ UNCHANGED <<doctors, matches, match_requests, patients, blocked_days,
                       global_blocks, nextId>>]_vars

\* A move took an appointment of rank 2 to the other slot, rank kept, while
\* another appointment stayed where it was.
C3_Witness ==
    /\ last.op = "move_appointment"
    /\ \E r \in Range(appointments) :
        /\ r.id = last.req.appt_id
        /\ r.day = "Mon" /\ r.session = "Afternoon" /\ r.rank = 2
        /\ \E o \in Range(appointments) : o.id # r.id /\ o.day = "Sun"

\* C8: the rank in create_appointment's response is the rank stored for the
\* appointment it created.
C8_ResponseCarriesStoredRank ==
    last.op = "create_appointment" =>
        \A r \in RowsWithId(appointments, last.body.id[1]) : last.body.rank = r.rank

NextSched ==
    \/ CreateAppointment
    \/ DeleteAppointment
    \/ ReorderAppointments
    \/ MoveAppointment
    \/ GetAppointments

SpecSched == Init /\ [][NextSched]_vars

-----------------------------------------------------------------------------
(* Identity and matching. *)

StudentIds == {"s1", "s2"}
DefaultColor == "#3b82f6"
\* The values get_random_color() may return: random.randint over 0..0xFFFFFF,
\* formatted; two of them, one also a colour a client may submit.
RandomColors == {"#00ff00", "#ff0000"}

\* The Doctor bodies a client posts to /register.
\* Per student id, one with every defaulted field left out and one with each set.
DoctorInputs ==
    [id : {None}, student_id : StudentIds, username : {"ann"}, password : {"pw"},
     color : {DefaultColor}, matches : {<<>>}, phone : {None}, country_code : {None}]
    \cup
    [id : {None}, student_id : StudentIds, username : {"ann"}, password : {"pw"},
     color : {"#ff0000"}, matches : {<<0>>}, phone : {Some("555")},
     country_code : {Some("+1")}]

\* SELECT 1 FROM doctors WHERE student_id = ?  (fetchone: a row or None)
SelectOneByStudentId(tbl, student_id) ==
    IF \E i \in DOMAIN tbl : tbl[i].student_id = student_id THEN Some(1) ELSE None

\* SELECT id FROM doctors WHERE student_id = ?  (fetchone: the first row or None)
SelectIdByStudentId(tbl, student_id) ==
    LET hits == SelectSeq(tbl, LAMBDA r : r.student_id = student_id)
    IN  IF hits = <<>> THEN None ELSE Some(hits[1].id)

\* The row INSERT INTO doctors writes for body `doctor`.
DoctorRow(doctor) ==
    [id |-> doctor.id[1], student_id |-> doctor.student_id,
     username |-> doctor.username, password |-> doctor.password,
     color |-> doctor.color, phone |-> doctor.phone,
     country_code |-> doctor.country_code]

\* id TEXT PRIMARY KEY, student_id TEXT UNIQUE: whether `row` may be inserted.
DoctorKeysFree(tbl, row) ==
    \A i \in DOMAIN tbl : tbl[i].id # row.id /\ tbl[i].student_id # row.student_id

\* A slip: register without its look-up of the student id.
NeverExisting(tbl, student_id) == None

\* register's `existing`
Existing(tbl, student_id) == SelectOneByStudentId(tbl, student_id)

\* POST /register
RegisterWith(doctor) ==
    /\ prior' = Before
    /\ UNCHANGED <<matches, match_requests, patients, appointments, blocked_days,
                   global_blocks, workers>>
    /\ IF Existing(doctors, doctor.student_id) # None
       THEN /\ last' = [op |-> "register", req |-> doctor, status |-> 400,
                        body |-> [detail |-> "Student ID already exists"]]
            /\ UNCHANGED <<doctors, nextId>>
       ELSE \E color \in RandomColors :
                LET stored == [doctor EXCEPT !.id = Some(uuid4("doctors")),
                                             !.color = color]
                IN  /\ nextId.doctors <= MaxDoctors
                    /\ nextId' = [nextId EXCEPT !.doctors = @ + 1]
                    /\ IF DoctorKeysFree(doctors, DoctorRow(stored))
                       THEN /\ doctors' = Append(doctors, DoctorRow(stored))
                            /\ last' = [op |-> "register", req |-> doctor,
                                        status |-> 201, body |-> stored]
                       ELSE \* sqlite3.IntegrityError, not caught: nothing commits
                            /\ doctors' = doctors
                            /\ last' = [op |-> "register", req |-> doctor,
                                        status |-> 500, body |-> None]

Register == \E doctor \in DoctorInputs : RegisterWith(doctor)

\* Register with a body that leaves every defaulted field out.
RegisterPlain ==
    \E doctor \in {d \in DoctorInputs :
                      d.color = DefaultColor /\ d.matches = <<>> /\ d.phone = None} :
        RegisterWith(doctor)

\* SELECT target_id FROM matches WHERE doctor_id = ?
get_matches_list(tbl, doctor_id) ==
    LET rows == SelectSeq(tbl, LAMBDA r : r.doctor_id = doctor_id)
    IN  [i \in DOMAIN rows |-> rows[i].target_id]

\* get_me: SELECT * FROM doctors WHERE id = ?, the row as a dict with the
\* practitioner's connections under 'matches'; 404 without a row.
get_me(dtbl, mtbl, id) ==
    LET rows == SelectSeq(dtbl, LAMBDA r : r.id = id)
    IN  IF rows = <<>>
        THEN [op |-> "get_me", req |-> [id |-> id], status |-> 404,
              body |-> [detail |-> "Doctor not found"]]
        ELSE [op |-> "get_me", req |-> [id |-> id], status |-> 200,
              body |-> [id |-> rows[1].id,
                        student_id |-> rows[1].student_id,
                        username |-> rows[1].username,
                        password |-> rows[1].password,
                        color |-> rows[1].color,
                        phone |-> rows[1].phone,
                        country_code |-> rows[1].country_code,
                        matches |-> get_matches_list(mtbl, id)]]

\* GET /doctors/me?id=
GetMe ==
    \E id \in NamedIds("doctors") :
        /\  last' = get_me(doctors, matches, id)
        /\ prior' = Before
            /\ UNCHANGED <<doctors, matches, match_requests, patients, appointments,
                           blocked_days, global_blocks, nextId, workers>>

\* PUT /doctors/{doctor_id}/color
UpdateColor ==
    \E doctor_id \in NamedIds("doctors"), color \in {"#ff0000"} :
        /\ doctors' = [i \in DOMAIN doctors |->
                           IF doctors[i].id = doctor_id
                           THEN [doctors[i] EXCEPT !.color = color]
                           ELSE doctors[i]]
        /\ last' = [op |-> "update_color",
                    req |-> [doctor_id |-> doctor_id, color |-> color],
                    status |-> 200, body |-> [status |-> "updated"]]
        /\ prior' = Before
        /\ UNCHANGED <<matches, match_requests, patients, appointments, blocked_days,
                       global_blocks, nextId, workers>>

\* POST /match-request
SendMatchRequest ==
    \E from_id \in NamedIds("doctors"), to_student_id \in StudentIds :
        LET req == [id |-> None, from_id |-> from_id, from_name |-> "ann",
                    to_student_id |-> to_student_id]
            target == SelectIdByStudentId(doctors, to_student_id)
        IN  /\ prior' = Before
            /\ UNCHANGED <<doctors, matches, patients, appointments, blocked_days,
                           global_blocks, workers>>
            /\ IF target = None
               THEN /\ last' = [op |-> "send_match_request", req |-> req, status |-> 404,
                                body |-> [detail |-> "Student ID not found"]]
                    /\ UNCHANGED <<match_requests, nextId>>
               ELSE IF target[1] = from_id
               THEN /\ last' = [op |-> "send_match_request", req |-> req, status |-> 400,
                                body |-> [detail |-> "Cannot match with self"]]
                    /\ UNCHANGED <<match_requests, nextId>>
               ELSE /\ nextId.match_requests <= MaxRequests
                    /\ match_requests' = Append(match_requests,
                           [id |-> uuid4("match_requests"), from_id |-> from_id,
                            from_name |-> req.from_name,
                            to_student_id |-> to_student_id])
                    /\ nextId' = [nextId EXCEPT !.match_requests = @ + 1]
                    /\ last' = [op |-> "send_match_request", req |-> req, status |-> 200,
                                body |-> [message |-> "Request sent"]]

\* A slip: INSERT without OR IGNORE into a table without its primary key.
InsertAlways(tbl, doctor_id, target_id) ==
    Append(tbl, [doctor_id |-> doctor_id, target_id |-> target_id])

\* INSERT OR IGNORE INTO matches (doctor_id, target_id) VALUES (?, ?), under
\* PRIMARY KEY (doctor_id, target_id)
InsertOrIgnore(tbl, doctor_id, target_id) ==
    IF \E i \in DOMAIN tbl : tbl[i].doctor_id = doctor_id /\ tbl[i].target_id = target_id
    THEN tbl
    ELSE Append(tbl, [doctor_id |-> doctor_id, target_id |-> target_id])

\* A slip: only the first of the two inserts.
AddOneDirection(tbl, target_id, from_id) == InsertOrIgnore(tbl, target_id, from_id)

\* "Add bidirectional match": the two inserts of accept_match, in their order.
AddBidirectional(tbl, target_id, from_id) ==
    InsertOrIgnore(InsertOrIgnore(tbl, target_id, from_id), from_id, target_id)

\* POST /match-accept/{req_id}
AcceptMatch ==
    \E req_id \in NamedIds("match_requests") :
        LET found == SelectSeq(match_requests, LAMBDA r : r.id = req_id)
        IN  /\ prior' = Before
            /\ UNCHANGED <<doctors, patients, appointments, blocked_days,
                           global_blocks, nextId, workers>>
            /\ IF found = <<>>
               THEN /\ last' = [op |-> "accept_match", req |-> [req_id |-> req_id],
                                status |-> 404, body |-> [detail |-> "Not Found"]]
                    /\ UNCHANGED <<matches, match_requests>>
               ELSE LET req == found[1]
                        target == SelectIdByStudentId(doctors, req.to_student_id)
                    IN  /\ matches' = IF target # None
                                      THEN AddBidirectional(matches, target[1], req.from_id)
                                      ELSE matches
                        /\ match_requests' =
                               SelectSeq(match_requests, LAMBDA r : r.id # req_id)
                        /\ last' = [op |-> "accept_match", req |-> [req_id |-> req_id],
                                    status |-> 200, body |-> [message |-> "Matched"]]

\* DELETE /matches/{doctor_id}/{target_id}
RemoveMatch ==
    \E doctor_id \in NamedIds("doctors"), target_id \in NamedIds("doctors") :
        /\ matches' = SelectSeq(matches,
                          LAMBDA r : ~(r.doctor_id = doctor_id /\ r.target_id = target_id))
        /\ last' = [op |-> "remove_match",
                    req |-> [doctor_id |-> doctor_id, target_id |-> target_id],
                    status |-> 200, body |-> [status |-> "removed"]]
        /\ prior' = Before
        /\ UNCHANGED <<doctors, match_requests, patients, appointments, blocked_days,
                       global_blocks, nextId, workers>>

-----------------------------------------------------------------------------
(* Identity and matching claims. *)

\* How many rows of the connection table are (doctor_id, target_id).
Copies(tbl, doctor_id, target_id) ==
    Cardinality({i \in DOMAIN tbl :
                    tbl[i].doctor_id = doctor_id /\ tbl[i].target_id = target_id})

Link(a, b) == [doctor_id |-> a, target_id |-> b]

\* C4: accepting an existing request from A to the student-id of B answers 200,
\* leaves (A,B) and (B,A) in the connection table exactly once each beside the
\* rows it already held, and deletes that request and no other; when both links
\* were already stored (the request was sent and accepted before) the table is
\* unchanged.
C4_AcceptInsertsBothOnce ==
    [][last'.op = "accept_match" =>
        \A r \in Range(match_requests) : \A b \in Range(doctors) :
            (r.id = last'.req.req_id /\ b.student_id = r.to_student_id) =>
                /\ last'.status = 200
                /\ Copies(matches', r.from_id, b.id) = 1
                /\ Copies(matches', b.id, r.from_id) = 1
                /\ Range(matches') = Range(matches) \cup {Link(r.from_id, b.id),
                                                          Link(b.id, r.from_id)}
                /\ match_requests' = SelectSeq(match_requests, LAMBDA o : o # r)
                /\ (Copies(matches, r.from_id, b.id) = 1
                       /\ Copies(matches, b.id, r.from_id) = 1) => matches' = matches]_vars

\* Two requests were sent and both accepted; the second accept found both
\* links stored and left the two-row table as it was.
C4_Witness ==
    /\ last.op = "accept_match"
    /\ last.status = 200
    /\ last.req.req_id = 2
    /\ match_requests = <<>>
    /\ Len(matches) = 2
    /\ matches[1] = Link(matches[2].target_id, matches[2].doctor_id)
    /\ prior.matches = matches

Symmetric(tbl) ==
    \A i \in DOMAIN tbl : Copies(tbl, tbl[i].target_id, tbl[i].doctor_id) > 0

\* C5 as stated: in every reachable state (A,B) is stored iff (B,A) is.
C5_AlwaysSymmetric == Symmetric(matches)

\* C5, amended: every Register, SendConnectionRequest and
\* AcceptConnectionRequest call keeps a symmetric connection table symmetric
\* (RemoveConnection deletes one direction only).
C5_SymmetricButForRemove ==
    [][(Symmetric(matches) /\ last'.op # "remove_match") => Symmetric(matches')]_vars

\* An accept just added both directions of a link to an empty table.
C5_Witness ==
    /\ last.op = "accept_match"
    /\ prior.matches = <<>>
    /\ Len(matches) = 2
    /\ Symmetric(matches)

NoSharedStudentId ==
    \A i, j \in DOMAIN doctors :
        i # j => doctors[i].student_id # doctors[j].student_id

\* C6: a Register whose student-id a stored practitioner has answers 400 and
\* changes no table, so that practitioner's row is as it was; no two stored
\* practitioners ever share a student-id.
C6_DuplicateRegisterRejected ==
    /\ []NoSharedStudentId
    /\ [][(/\ last'.op = "register"
            /\ \E i \in DOMAIN doctors : doctors[i].student_id = last'.req.student_id) =>
               /\ last'.status = 400
               /\ UNCHANGED <<doctors, matches, match_requests, patients, appointments,
                              blocked_days, global_blocks, nextId>>]_vars

\* A second Register with the first practitioner's student-id was refused.
C6_Witness ==
    /\ last.op = "register"
    /\ last.status = 400
    /\ Len(doctors) = 1
    /\ doctors[1].student_id = last.req.student_id

NextMatch ==
    \/ RegisterPlain
    \/ GetMe
    \/ UpdateColor
    \/ SendMatchRequest
    \/ AcceptMatch
    \/ RemoveMatch

SpecMatch == Init /\ [][NextMatch]_vars

-----------------------------------------------------------------------------
(* Patients. *)

\* The Patient bodies a client posts: the secondary identifier left out, empty,
\* or given.
PatientInputs ==
    [id : {None}, doctor_id : DoctorIds, name : {"Pat"},
     r4 : {None, Some(""), Some("R5")}]

\* A slip: the secondary identifier stored as posted.
AsPosted(x) == x

\* p.r4 or "": the empty string for None and for the empty string.
OrEmpty(x) == IF x = None \/ x = Some("") THEN Some("") ELSE x

\* POST /patients
AddPatient ==
    \E p \in PatientInputs :
        LET returned == [p EXCEPT !.id = Some(uuid4("patients"))]
        IN  /\ nextId.patients <= MaxPatients
            /\ patients' = Append(patients,
                   [id |-> returned.id[1], doctor_id |-> p.doctor_id,
                    name |-> p.name, r4 |-> OrEmpty(p.r4)])
            /\ nextId' = [nextId EXCEPT !.patients = @ + 1]
            /\ last' = [op |-> "add_patient", req |-> p, status |-> 200,
                        body |-> returned]
            /\ prior' = Before
            /\ UNCHANGED <<doctors, matches, match_requests, appointments,
                           blocked_days, global_blocks, workers>>

\* get_patients: SELECT * FROM patients WHERE doctor_id = ?
get_patients(tbl, doctor_id) == SelectSeq(tbl, LAMBDA r : r.doctor_id = doctor_id)

-----------------------------------------------------------------------------
(* Blocked days and global blocks. *)

Weekdays == {"Sun", "Mon"}
BlockedDayInputs == [doctor_id : DoctorIds, day : Weekdays]
GlobalBlockInputs == [doctor_id : DoctorIds, day_of_week : {"Sun"},
                      session : {"Morning", "Afternoon"}]

\* The tables as they are now, and the request served last.
BeforeToggle == [Before EXCEPT !.request = last]

\* A slip: the insert without the existence check and its delete.
InsertOnly(tbl, row) == tbl \cup {row}

\* delete-if-present else insert of one row, keyed by all its columns.
Toggle(tbl, row) == IF row \in tbl THEN tbl \ {row} ELSE tbl \cup {row}

\* POST /blocked-days
ToggleBlockedDay ==
    \E data \in BlockedDayInputs :
        /\ blocked_days' = Toggle(blocked_days, data)
        /\ last' = [op |-> "toggle_blocked_day", req |-> data, status |-> 200,
                    body |-> [status |-> IF data \in blocked_days
                                         THEN "unblocked" ELSE "blocked"]]
        /\ prior' = BeforeToggle
        /\ UNCHANGED <<doctors, matches, match_requests, patients, appointments,
                       global_blocks, nextId, workers>>

\* POST /global-blocks
ToggleGlobalBlock ==
    \E data \in GlobalBlockInputs :
        /\ global_blocks' = Toggle(global_blocks, data)
        /\ last' = [op |-> "toggle_global_block", req |-> data, status |-> 200,
                    body |-> [status |-> "toggled"]]
        /\ prior' = BeforeToggle
        /\ UNCHANGED <<doctors, matches, match_requests, patients, appointments,
                       blocked_days, nextId, workers>>

\* C7: two ToggleBlockedDay calls with the same (practitioner, day), one right
\* after the other, leave the blocked-day table as it was before the first;
\* likewise two ToggleGlobalBlock calls with the same (practitioner, weekday,
\* session) and the global-block table.
C7_ToggleTwiceRestores ==
    [][/\ (/\ last.op = "toggle_blocked_day"
           /\ last'.op = "toggle_blocked_day"
           /\ last'.req = last.req) =>
              /\ blocked_days' = prior.blocked_days
              /\ global_blocks' = prior.global_blocks
       /\ (/\ last.op = "toggle_global_block"
           /\ last'.op = "toggle_global_block"
           /\ last'.req = last.req) =>
              /\ global_blocks' = prior.global_blocks
              /\ blocked_days' = prior.blocked_days]_vars

\* The same blocked day was toggled twice in a row, starting present: removed,
\* then inserted again, beside another blocked day that stayed.
C7_Witness ==
    /\ last.op = "toggle_blocked_day"
    /\ last.body.status = "blocked"
    /\ prior.request.op = "toggle_blocked_day"
    /\ prior.request.req = last.req
    /\ prior.request.body.status = "unblocked"
    /\ Cardinality(blocked_days) = 2

NextBlock ==
    \/ ToggleBlockedDay
    \/ ToggleGlobalBlock

SpecBlock == Init /\ [][NextBlock]_vars

-----------------------------------------------------------------------------
(* Create, then read. *)

\* The rows of a listing with the id a create returned.
Listed(rows, id) == {rows[i] : i \in {j \in DOMAIN rows : rows[j].id = id[1]}}

\* colorAssigned: whether the colour read back is to be the one Register returned.
RegisterReadBack(colorAssigned) ==
    (last.op = "register" /\ last.status = 201) =>
        LET got == get_me(doctors, matches, last.body.id[1])
        IN  /\ got.status = 200
            /\ got.body.student_id = last.req.student_id
            /\ got.body.username = last.req.username
            /\ got.body.password = last.req.password
            /\ got.body.phone = last.req.phone
            /\ got.body.country_code = last.req.country_code
            /\ got.body.color = IF colorAssigned THEN last.body.color ELSE last.req.color

\* omittedAsEmpty: whether an omitted secondary identifier is to read back empty.
PatientReadBack(omittedAsEmpty) ==
    last.op = "add_patient" =>
        LET got == Listed(get_patients(patients, last.req.doctor_id), last.body.id)
        IN  /\ Cardinality(got) = 1
            /\ \A row \in got :
                /\ row.doctor_id = last.req.doctor_id
                /\ row.name = last.req.name
                /\ row.r4 = IF omittedAsEmpty /\ last.req.r4 = None
                           THEN Some("") ELSE last.req.r4

AppointmentReadBack ==
    last.op = "create_appointment" =>
        \A rows \in SelectAppointments(appointments, <<<<last.req.doctor_id>>>>) :
            LET got == Listed(rows, last.body.id)
            IN  /\ Cardinality(got) = 1
                /\ \A row \in got :
                    [row EXCEPT !.id = None, !.rank = last.req.rank] = last.req

\* C9 as stated: after Register, AddPatient and CreateAppointment the matching
\* read returns every submitted field as submitted, the generated id and the
\* computed rank apart: the chosen colour and the omitted secondary identifier
\* too.
C9_ReadBackAsSubmitted ==
    /\ RegisterReadBack(FALSE)
    /\ PatientReadBack(FALSE)
    /\ AppointmentReadBack

\* C9, amended: the same, with three more exceptions: the practitioner's colour
\* reads back as the random colour Register assigned and returned, not the
\* submitted one; the practitioner's submitted matches list is not stored; a
\* secondary identifier left out reads back as the empty string.
C9_ReadBackButForColorAndOmittedR4 ==
    /\ RegisterReadBack(TRUE)
    /\ (last.op = "register" /\ last.status = 201) => last.body.color \in RandomColors
    /\ PatientReadBack(TRUE)
    /\ AppointmentReadBack

\* A patient posted without a secondary identifier was stored while a
\* practitioner and an appointment were stored too.
C9_Witness ==
    /\ last.op = "add_patient"
    /\ last.req.r4 = None
    /\ \E i \in DOMAIN doctors : doctors[i].color = "#00ff00"
    /\ appointments # <<>>

\* The create calls that have inserted a row so far.
Created == (nextId.doctors - 1) + (nextId.patients - 1) + (nextId.appointments - 1)

NextRoundTrip ==
    \/ Created < MaxCreates /\ Register
    \/ Created < MaxCreates /\ AddPatient
    \/ Created < MaxCreates /\ CreateAppointment

SpecRoundTrip == Init /\ [][NextRoundTrip]_vars

-----------------------------------------------------------------------------
(* create_appointment served by several server processes on one database
   file.  A handler has no await in its body, so the process that serves it
   runs it from its first statement to its return; another process's
   statements fall between its SELECT and its INSERT, which no transaction
   spans. *)

\* Lines 337-342 in process w: the id, the SELECT MAX(rank), its row fetched.
CreateSelect(w) ==
    \E appt \in ApptInputs :
        /\ workers[w].pc = "idle"
        /\ nextId.appointments <= MaxAppointments
        /\ workers' = [workers EXCEPT ![w] =
               [pc |-> "insert",
                appt |-> [appt EXCEPT !.id = Some(uuid4("appointments"))],
                row |-> SelectMaxRank(appointments, appt.doctor_id, appt.day,
                                      appt.session)]]
        /\ nextId' = [nextId EXCEPT !.appointments = @ + 1]
        /\ UNCHANGED <<doctors, matches, match_requests, patients, appointments,
                       blocked_days, global_blocks, last, prior>>

\* A repair: the maximum read again by the statement that inserts.
RankReadAtInsert(tbl, job) ==
    NewRank(SelectMaxRank(tbl, job.appt.doctor_id, job.appt.day, job.appt.session))

\* new_rank as the INSERT binds it: from the row the SELECT fetched earlier.
RankToInsert(tbl, job) == NewRank(job.row)

\* Lines 344-350 in process w: the INSERT, the commit, the response.
CreateInsert(w) ==
    /\ workers[w].pc = "insert"
    /\ LET job == workers[w]
           new_rank == RankToInsert(appointments, job)
       IN  /\ appointments' =
                  Append(appointments, AppointmentRow(job.appt.id[1], job.appt, new_rank))
           /\ last' = [op |-> "create_appointment",
                       req |-> [job.appt EXCEPT !.id = None], status |-> 200,
                       body |-> CreateResponse(job.appt.id[1], job.appt, new_rank)]
    /\ workers' = [workers EXCEPT ![w] = Idle]
    /\ prior' = Before
    /\ UNCHANGED <<doctors, matches, match_requests, patients, blocked_days,
                   global_blocks, nextId>>

\* Two appointments of one bucket have the same rank.
RankCollision(tbl) ==
    \E i, j \in DOMAIN tbl :
        /\ i # j
        /\ tbl[i].doctor_id = tbl[j].doctor_id
        /\ tbl[i].day = tbl[j].day
        /\ tbl[i].session = tbl[j].session
        /\ tbl[i].rank = tbl[j].rank

NextRace ==
    \/ \E w \in WorkerIds : CreateSelect(w)
    \/ \E w \in WorkerIds : CreateInsert(w)
    \/ DeleteAppointment

SpecRace == Init /\ [][NextRace]_vars

-----------------------------------------------------------------------------
(* The whole API served by one process: every handler above, each run from its
   first statement to its return.  The handlers of one section read and write
   only that section's tables, and the claims are checked under the
   specification of their section. *)

Next ==
    \/ NextSched
    \/ NextMatch
    \/ Register
    \/ AddPatient
    \/ NextBlock

Spec == Init /\ [][Next]_vars

=============================================================================
